---------------------------- MODULE Spec2Model ----------------------------
(***************************************************************************)
(* Dependency tracking of src/core/observer/dep.js: the Dep class (subs,   *)
(* addSub, removeSub, depend, notify) and the evaluation context stack     *)
(* (Dep.target, targetStack, pushTarget, popTarget).                       *)
(*                                                                         *)
(* The program is single-threaded; update() and addDep() are callbacks of  *)
(* the Watcher collaborator.  A call of notify() is modelled as a frame on *)
(* a call stack `cs`, so that the body of an update() callback can         *)
(* re-enter the Dep API while the loop of notify() is suspended.           *)
(***************************************************************************)
EXTENDS Integers, Sequences, FiniteSets, TLC

\* ------------------------------------------------------------------ bounds
MaxSubs == 2
MaxStack == 3
MaxNest == 2
MaxKey == 2
MaxTypes == 2

\* ------------------------------------------------------------- the objects
Watchers == {"A", "B"}
Deps == {"d1", "d2"}
\* watcher.id, the key of the sort of notify(); A was created after B
WatcherId == ("A" :> 2) @@ ("B" :> 1)

Null == "null"
Undefined == "undefined"
Targets == Watchers \cup {Null, Undefined}
\* JavaScript truthiness of a ?Watcher, as tested by `if (Dep.target)`
Truthy(t) == t \notin {Null, Undefined}

VARIABLES
  subs,         \* Dep.subs of every Dep
  target,       \* Dep.target
  targetStack,  \* targetStack
  async,        \* config.async
  production,   \* process.env.NODE_ENV === 'production'
  cs,           \* the call stack: frames of notify(), update() and get()
  exc,          \* an exception is propagating up the call stack
  depIds,       \* Watcher.depIds: the Deps of the last evaluation
  newDepIds,    \* Watcher.newDepIds: the Deps of the evaluation in progress
  saved,        \* history: Dep.target as it was before each pushTarget still on the stack
  last,         \* history: the call made by the last step; <<"depend", d, w>> when
                \* depend() of d invoked w.addDep(d), <<"depend", d>> when it invoked none;
                \* <<"addSub", d, w>> and <<"removeSub", d, w>> with their arguments
  propCall,     \* the arguments of a call of validateProp
  propRet       \* its return value, once it has returned

vars == <<subs, target, targetStack, async, production, cs, exc,
          depIds, newDepIds, saved, last, propCall, propRet>>

\* ----------------------------------------------------------------- frames
NoFrameSeq == <<>>
NotifyFrame(d, entry, snap) ==
  [k |-> "notify", d |-> d, w |-> Null, entry |-> entry, snap |-> snap,
   i |-> 0, fired |-> NoFrameSeq, mut |-> FALSE, reads |-> {}, depth |-> 0, ph |-> "run", old |-> {}, re |-> FALSE]
UpdateFrame(w) ==
  [k |-> "update", d |-> Null, w |-> w, entry |-> NoFrameSeq, snap |-> NoFrameSeq,
   i |-> 0, fired |-> NoFrameSeq, mut |-> FALSE, reads |-> {}, depth |-> 0, ph |-> "run", old |-> {}, re |-> FALSE]
GetFrame(w, old) ==
  [k |-> "get", d |-> Null, w |-> w, entry |-> NoFrameSeq, snap |-> NoFrameSeq,
   i |-> 0, fired |-> NoFrameSeq, mut |-> FALSE, reads |-> {}, depth |-> 0, ph |-> "run", old |-> old, re |-> FALSE]

Top == cs[Len(cs)]
Front(s) == SubSeq(s, 1, Len(s) - 1)
Last(s) == s[Len(s)]
TopIs(kind) == cs # <<>> /\ Top.k = kind
NotifyDepth == Cardinality({n \in 1..Len(cs) : cs[n].k = "notify"})

\* ------------------------------------------------------- pure array helpers
Range(s) == {s[n] : n \in 1..Len(s)}
Count(s, x) == Cardinality({n \in 1..Len(s) : s[n] = x})
NoDup(s) == \A x \in Range(s) : Count(s, x) = 1

\* Array.prototype.indexOf: the first position of x, 0 when absent
IndexOf(s, x) ==
  IF x \in Range(s) THEN CHOOSE n \in 1..Len(s) : s[n] = x /\ \A m \in 1..(n - 1) : s[m] # x
  ELSE 0

\* remove(arr, item) of util: splice out the first occurrence, if any
remove(s, x) ==
  LET n == IndexOf(s, x)
  IN IF n > 0 THEN SubSeq(s, 1, n - 1) \o SubSeq(s, n + 1, Len(s)) ELSE s

\* the comparator of notify(): (a, b) => a.id - b.id
CompareId(a, b) == WatcherId[a] - WatcherId[b]

RECURSIVE Insert(_, _)
Insert(sorted, x) ==
  IF sorted = <<>> THEN <<x>>
  ELSE IF CompareId(Last(sorted), x) > 0
       THEN Append(Insert(Front(sorted), x), Last(sorted))
       ELSE Append(sorted, x)

\* subs.sort(compare): a stable sort
RECURSIVE SortById(_)
SortById(s) == IF s = <<>> THEN <<>> ELSE Insert(SortById(Front(s)), Last(s))

\* the array notify() iterates: a copy, sorted unless production or async
\* (faulty variants: the sort made unconditional, the sort left out)
SnapshotAlwaysSorted(s) == SortById(s)
SnapshotNeverSorted(s) == s
Snapshot(s) == IF ~production /\ ~async THEN SortById(s) ELSE s

\* subs[i] in the loop of notify(): subs is the local copy
\* (faulty variant: the loop reads this.subs instead of its copy)
LoopSubLive(f) == IF f.i + 1 <= Len(subs[f.d]) THEN subs[f.d][f.i + 1] ELSE Last(f.snap)
LoopSub(f) == f.snap[f.i + 1]

\* l in the loop of notify(): the length of the local copy, read once
\* (faulty variant: the loop tests i against this.subs.length)
LoopLenLive(f) == Len(subs[f.d])
LoopLen(f) == Len(f.snap)

\* history: every notify() in progress on a Dep whose subs changed from S to T sees it
MarkMutated(stack, S, T) ==
  [n \in 1..Len(stack) |->
     IF stack[n].k = "notify" /\ S[stack[n].d] # T[stack[n].d]
     THEN [stack[n] EXCEPT !.mut = TRUE] ELSE stack[n]]

\* history: a call of depend() or notify() on Dep d, made by an update() body
\* while notify() of the same Dep is in its loop, has returned
MarkReentered(stack, d) ==
  [n \in 1..Len(stack) |->
     IF stack[n].k = "notify" /\ stack[n].d = d
     THEN [stack[n] EXCEPT !.re = TRUE] ELSE stack[n]]

\* ------------------------------------------------------------ Dep and stack
\* Dep.addSub: this.subs.push(sub)
\* (faulty variant: a watcher already subscribed is not added again)
addSubUnique(S, d, w) == IF w \in Range(S[d]) THEN S ELSE [S EXCEPT ![d] = Append(@, w)]
addSub(S, d, w) == [S EXCEPT ![d] = Append(@, w)]

\* Dep.removeSub: remove(this.subs, sub)
\* (faulty variants: the removal is lost; every occurrence is removed)
removeSubNothing(S, d, w) == S
removeSubAll(S, d, w) == [S EXCEPT ![d] = SelectSeq(@, LAMBDA x : x # w)]
removeSub(S, d, w) == [S EXCEPT ![d] = remove(@, w)]

\* Watcher.addDep(dep): once per Dep and pass, and addSub only when the watcher
\* is not subscribed since its last pass
addDep(w, d) ==
  /\ last' = <<"depend", d, w>>
  /\ IF d \in newDepIds[w]
     THEN UNCHANGED <<newDepIds, subs>>
     ELSE /\ newDepIds' = [newDepIds EXCEPT ![w] = @ \cup {d}]
          /\ IF d \in depIds[w]
             THEN UNCHANGED subs
             ELSE /\ Len(subs[d]) < MaxSubs
                  /\ subs' = addSub(subs, d, w)

\* Dep.depend: if (Dep.target) Dep.target.addDep(this)
\* (faulty variants: the test of Dep.target is lost and a stale watcher is
\* used; the Dep subscribes the target itself instead of leaving it to addDep)
dependAlsoAddsSub(d) ==
  IF Truthy(target)
  THEN /\ last' = <<"depend", d, target>>
       /\ newDepIds' = [newDepIds EXCEPT ![target] = @ \cup {d}]
       /\ Len(subs[d]) < MaxSubs
       /\ subs' = addSub(subs, d, target)
  ELSE UNCHANGED <<subs, newDepIds>> /\ last' = <<"depend", d>>
dependUnguarded(d) == addDep(IF Truthy(target) THEN target ELSE "A", d)
depend(d) ==
  IF Truthy(target)
  THEN addDep(target, d)
  ELSE UNCHANGED <<subs, newDepIds>> /\ last' = <<"depend", d>>

\* pushTarget: targetStack.push(target); Dep.target = target
\* (faulty variant: Dep.target is not updated)
pushTargetStale(t) ==
  /\ targetStack' = Append(targetStack, t)
  /\ target' = target
  /\ saved' = Append(saved, target)
pushTarget(t) ==
  /\ targetStack' = Append(targetStack, t)
  /\ target' = t
  /\ saved' = Append(saved, target)

\* popTarget: targetStack.pop(); Dep.target = targetStack[targetStack.length - 1]
\* (faulty variants: Dep.target is not updated; the stack is read but not popped)
popTargetKeepsTarget ==
  /\ targetStack' = IF targetStack = <<>> THEN <<>> ELSE Front(targetStack)
  /\ target' = target
  /\ saved' = IF saved = <<>> THEN <<>> ELSE Front(saved)
popTargetPeeks ==
  /\ targetStack' = targetStack
  /\ target' = IF targetStack = <<>> THEN Undefined ELSE Last(targetStack)
  /\ saved' = saved
popTarget ==
  /\ targetStack' = IF targetStack = <<>> THEN <<>> ELSE Front(targetStack)
  /\ target' = IF targetStack' = <<>> THEN Undefined ELSE Last(targetStack')
  /\ saved' = IF saved = <<>> THEN <<>> ELSE Front(saved)

\* Watcher.cleanupDeps: dep.removeSub(this) for every Dep of the last pass
\* that this pass did not read; the Deps of this pass become those of the last
RECURSIVE RemoveFromAll(_, _, _)
RemoveFromAll(S, ds, w) ==
  IF ds = {} THEN S
  ELSE LET d == CHOOSE x \in ds : TRUE
       IN RemoveFromAll(removeSub(S, d, w), ds \ {d}, w)

cleanupDeps(w) ==
  /\ subs' = RemoveFromAll(subs, depIds[w] \ newDepIds[w], w)
  /\ depIds' = [depIds EXCEPT ![w] = newDepIds[w]]
  /\ newDepIds' = [newDepIds EXCEPT ![w] = {}]

\* ------------------------------------------------------------ validateProp
\* JavaScript values: undefined, a boolean, a string (a sequence of characters)
JsUndefined == [t |-> "undefined", b |-> FALSE, s |-> <<>>]
JsBoolean(b) == [t |-> "boolean", b |-> b, s |-> <<>>]
JsString(s) == [t |-> "string", b |-> FALSE, s |-> s]

\* prop names: camelCase words over a lower-case and an upper-case letter
Letters == {"a", "B"}
Strings(n) == UNION {[1..m -> Letters] : m \in 0..n}
Keys == Strings(MaxKey) \ {<<>>}

\* hyphenate of shared/util: a hyphen before every upper-case letter that
\* follows a word character, then lower case
IsUpper(c) == c = "B"
IsWord(c) == c # "-"
toLowerCase(c) == IF c = "B" THEN "b" ELSE c
RECURSIVE hyphenateFrom(_, _)
hyphenateFrom(str, n) ==
  IF n > Len(str) THEN <<>>
  ELSE (IF IsUpper(str[n]) /\ n > 1 /\ IsWord(str[n - 1]) THEN <<"-">> ELSE <<>>)
         \o <<toLowerCase(str[n])>> \o hyphenateFrom(str, n + 1)
hyphenate(str) == hyphenateFrom(str, 1)

\* prop.type: a constructor, null, or an array of constructors. A constructor
\* is written as the name getType() reads off it, null as the empty name.
TypeNames == {"Boolean", "String", "Number"}
NoType == ""
PropTypes ==
  {[isArray |-> FALSE, fns |-> <<t>>] : t \in TypeNames \cup {NoType}}
    \cup {[isArray |-> TRUE, fns |-> ts] : ts \in UNION {[1..m -> TypeNames] : m \in 0..MaxTypes}}

\* isSameType: getType(a) === getType(b)
isSameType(a, b) == a = b

\* getTypeIndex: the index, from 0, of the first expected type that is the
\* type; -1 when there is none
\* (faulty variant: the index counts from 1, and 0 says there is none)
getTypeIndexFromOne(type, expectedTypes) ==
  LET hits == {i \in 1..Len(expectedTypes.fns) : isSameType(expectedTypes.fns[i], type)}
  IN IF hits = {} THEN 0 ELSE CHOOSE i \in hits : \A j \in hits : i <= j
getTypeIndex(type, expectedTypes) ==
  IF ~expectedTypes.isArray
  THEN IF isSameType(expectedTypes.fns[1], type) THEN 0 ELSE -1
  ELSE LET hits == {i \in 0..(Len(expectedTypes.fns) - 1) :
                      isSameType(expectedTypes.fns[i + 1], type)}
       IN IF hits = {} THEN -1 ELSE CHOOSE i \in hits : \A j \in hits : i <= j

\* the values passed in propsData, declared as default, or kept in vm._props
PropValues ==
  {JsUndefined, JsBoolean(TRUE), JsBoolean(FALSE)}
    \cup {JsString(str) : str \in Strings(MaxKey) \cup {hyphenate(k) : k \in Keys}}
PropDefaults == {JsBoolean(TRUE), JsString(<<"a">>)}
PropPrevious == {JsUndefined, JsBoolean(FALSE)}

\* a call validateProp(key, propOptions, propsData, vm):
\* type and hasDefault/default are propOptions[key], absent is !hasOwn(propsData, key),
\* value is propsData[key], previous is vm._props[key] (undefined without vm)
PropCalls ==
  {c \in [key : Keys, type : PropTypes, hasDefault : BOOLEAN, default : PropDefaults \cup {JsUndefined},
          absent : BOOLEAN, value : PropValues, previous : PropPrevious] :
     /\ c.absent => c.value = JsUndefined
     /\ c.hasDefault <=> c.default # JsUndefined}

\* validateProp, the block "boolean casting"
booleanCasting(c) ==
  LET booleanIndex == getTypeIndex("Boolean", c.type)
  IN IF booleanIndex > -1
     THEN IF c.absent /\ ~c.hasDefault
          THEN JsBoolean(FALSE)
          ELSE IF c.value = JsString(<<>>) \/ c.value = JsString(hyphenate(c.key))
               THEN LET stringIndex == getTypeIndex("String", c.type)
                    IN IF stringIndex < 0 \/ booleanIndex < stringIndex
                       THEN JsBoolean(TRUE)
                       ELSE c.value
               ELSE c.value
     ELSE c.value

\* getPropDefaultValue, for a default that is not a factory function
getPropDefaultValue(c) ==
  IF ~c.hasDefault THEN JsUndefined
  ELSE IF c.value = JsUndefined /\ c.previous # JsUndefined THEN c.previous
  ELSE c.default

\* validateProp: the casting, then the default for undefined; observe() and
\* assertProp() do not change the value
validateProp(c) ==
  LET value == booleanCasting(c)
  IN IF value = JsUndefined THEN getPropDefaultValue(c) ELSE value

NoCall ==
  [key |-> <<"a">>, type |-> [isArray |-> FALSE, fns |-> <<NoType>>], hasDefault |-> FALSE,
   default |-> JsUndefined, absent |-> TRUE, value |-> JsUndefined, previous |-> JsUndefined]
NoReturn == [done |-> FALSE, cast |-> JsUndefined, value |-> JsUndefined]

\* --------------------------------------------------------------- the start
Init ==
  /\ subs = [d \in Deps |-> <<>>]
  /\ target = Null
  /\ targetStack = <<>>
  /\ async \in BOOLEAN
  /\ production \in BOOLEAN
  /\ cs = <<>>
  /\ exc = FALSE
  /\ depIds = [w \in Watchers |-> {}]
  /\ newDepIds = [w \in Watchers |-> {}]
  /\ saved = <<>>
  /\ last = <<"init">>
  /\ propCall = NoCall
  /\ propRet = NoReturn

\* code that may call the API: the host, or the body of an update() callback
AtCaller == IF cs = <<>> THEN TRUE ELSE Top.k = "update"
AtUser == ~exc /\ AtCaller

\* ------------------------------------------------- calls of the API by users
AddSub(d, w) ==
  /\ AtUser
  /\ Len(subs[d]) < MaxSubs
  /\ subs' = addSub(subs, d, w)
  /\ cs' = MarkMutated(cs, subs, subs')
  /\ last' = <<"addSub", d, w>>
  /\ UNCHANGED <<target, targetStack, async, production, exc, depIds, newDepIds, saved, propCall, propRet>>

RemoveSub(d, w) ==
  /\ AtUser
  /\ subs' = removeSub(subs, d, w)
  /\ cs' = MarkMutated(cs, subs, subs')
  /\ last' = <<"removeSub", d, w>>
  /\ UNCHANGED <<target, targetStack, async, production, exc, depIds, newDepIds, saved, propCall, propRet>>

Depend(d) ==
  /\ AtUser
  /\ depend(d)
  /\ cs' = MarkReentered(MarkMutated(cs, subs, subs'), d)
  /\ UNCHANGED <<target, targetStack, async, production, exc, depIds, saved, propCall, propRet>>

PushTarget(t) ==
  /\ AtUser
  /\ Len(targetStack) < MaxStack
  /\ pushTarget(t)
  /\ last' = <<"pushTarget">>
  /\ UNCHANGED <<subs, async, production, cs, exc, depIds, newDepIds, propCall, propRet>>

PopTarget ==
  /\ AtUser
  /\ popTarget
  /\ last' = <<"popTarget">>
  /\ UNCHANGED <<subs, async, production, cs, exc, depIds, newDepIds, propCall, propRet>>

\* ------------------------------------------------------------- Dep.notify
\* entry of notify(): const subs = this.subs.slice(), and the sort.
\* Calls of notify() are not nested here: it is entered with no notify() in progress
\* (faulty variant: the live array is sorted, without slice())
NotifySortsInPlace(d) ==
  /\ AtUser
  /\ NotifyDepth = 0
  /\ subs' = [subs EXCEPT ![d] = Snapshot(@)]
  /\ cs' = Append(cs, NotifyFrame(d, subs[d], subs'[d]))
  /\ last' = <<"notify">>
  /\ UNCHANGED <<target, targetStack, async, production, exc, depIds, newDepIds, saved, propCall, propRet>>
Notify(d) ==
  /\ AtUser
  /\ NotifyDepth = 0
  /\ cs' = Append(cs, NotifyFrame(d, subs[d], Snapshot(subs[d])))
  /\ last' = <<"notify">>
  /\ UNCHANGED <<subs, target, targetStack, async, production, exc, depIds, newDepIds, saved, propCall, propRet>>

\* the body of an update() callback calls notify() of the Dep that is notifying it
NotifyFromUpdate ==
  /\ ~exc
  /\ TopIs("update")
  /\ NotifyDepth < MaxNest
  /\ LET d == cs[Len(cs) - 1].d
     IN cs' = Append(cs, NotifyFrame(d, subs[d], Snapshot(subs[d])))
  /\ last' = <<"notify">>
  /\ UNCHANGED <<subs, target, targetStack, async, production, exc, depIds, newDepIds, saved, propCall, propRet>>

\* one turn of the loop: i < l, subs[i].update() is called
NotifyCallUpdate ==
  /\ ~exc
  /\ TopIs("notify")
  /\ Top.i < LoopLen(Top)
  /\ LET w == LoopSub(Top)
     IN cs' = Append([cs EXCEPT ![Len(cs)].fired = Append(@, w)], UpdateFrame(w))
  /\ last' = <<"update">>
  /\ UNCHANGED <<subs, target, targetStack, async, production, exc, depIds, newDepIds, saved, propCall, propRet>>

\* update() returns to the loop: i++
UpdateReturn ==
  /\ ~exc
  /\ TopIs("update")
  /\ cs' = [Front(cs) EXCEPT ![Len(cs) - 1].i = @ + 1]
  /\ last' = <<"return">>
  /\ UNCHANGED <<subs, target, targetStack, async, production, exc, depIds, newDepIds, saved, propCall, propRet>>

\* update() raises, or lets the exception of a call it made pass
UpdateThrow ==
  /\ TopIs("update")
  /\ cs' = Front(cs)
  /\ exc' = TRUE
  /\ last' = <<"throw">>
  /\ UNCHANGED <<subs, target, targetStack, async, production, depIds, newDepIds, saved, propCall, propRet>>

\* the loop has no try: an exception of update() ends notify()
NotifyUnwind ==
  /\ exc
  /\ TopIs("notify")
  /\ cs' = Front(cs)
  /\ last' = <<"unwind">>
  /\ UNCHANGED <<subs, target, targetStack, async, production, exc, depIds, newDepIds, saved, propCall, propRet>>

\* i < l fails: notify() returns
NotifyReturn ==
  /\ ~exc
  /\ TopIs("notify")
  /\ ~(Top.i < LoopLen(Top))
  /\ cs' = MarkReentered(Front(cs), Top.d)
  /\ last' = <<"notifyReturn">>
  /\ UNCHANGED <<subs, target, targetStack, async, production, exc, depIds, newDepIds, saved, propCall, propRet>>

\* the caller of notify() or get() catches the exception
Catch ==
  /\ exc
  /\ AtCaller
  /\ exc' = FALSE
  /\ last' = <<"catch">>
  /\ UNCHANGED <<subs, target, targetStack, async, production, cs, depIds, newDepIds, saved, propCall, propRet>>

\* the host calls notify(); the loop runs, update() bodies change the subscribers
NextNotify ==
  \/ \E d \in Deps, w \in Watchers : AddSub(d, w)
  \/ \E d \in Deps, w \in Watchers : RemoveSub(d, w)
  \/ \E d \in Deps : Notify(d)
  \/ NotifyCallUpdate
  \/ UpdateReturn
  \/ UpdateThrow
  \/ NotifyUnwind
  \/ NotifyReturn
  \/ Catch

Spec == Init /\ [][NextNotify]_vars

\* the host drives the context stack and reads
NextStack ==
  \/ \E d \in Deps : Depend(d)
  \/ \E t \in Targets : PushTarget(t)
  \/ PopTarget

SpecStack == Init /\ [][NextStack]_vars

\* the host pushes one watcher at a time, which reads Deps, and pops it;
\* notify() runs, and the bodies of the update() callbacks call depend() and
\* notify() again
NextReentrant ==
  \/ \E d \in Deps : Depend(d)
  \/ \E t \in Watchers : cs = <<>> /\ targetStack = <<>> /\ PushTarget(t)
  \/ cs = <<>> /\ PopTarget
  \/ \E d \in Deps : Notify(d)
  \/ NotifyFromUpdate
  \/ NotifyCallUpdate
  \/ UpdateReturn
  \/ UpdateThrow
  \/ NotifyUnwind
  \/ NotifyReturn
  \/ Catch

SpecReentrant == Init /\ [][NextReentrant]_vars

\* the host subscribes and unsubscribes watchers, in any order and with
\* repetitions, while watchers are pushed on and popped off the context stack
NextApi ==
  \/ \E d \in Deps, w \in Watchers : AddSub(d, w)
  \/ \E d \in Deps, w \in Watchers : RemoveSub(d, w)
  \/ \E t \in Watchers : PushTarget(t)
  \/ PopTarget

SpecApi == Init /\ [][NextApi]_vars

\* ------------------------------------------------- Watcher.get, the evaluation
\* get() begins: pushTarget(this).  Called by the host, by run() of the watcher
\* being updated, or by the getter of another watcher (a computed value)
Get(w) ==
  /\ ~exc
  /\ IF cs = <<>> THEN TRUE
     ELSE \/ Top.k = "update" /\ Top.w = w
          \/ Top.k = "get" /\ Top.ph = "run" /\ Top.depth = 0 /\ Top.w # w
  /\ \A n \in 1..Len(cs) : ~(cs[n].k = "get" /\ cs[n].w = w)
  /\ Len(targetStack) < MaxStack
  /\ pushTarget(w)
  /\ cs' = Append(cs, GetFrame(w, depIds[w]))
  /\ last' = <<"get">>
  /\ UNCHANGED <<subs, async, production, exc, depIds, newDepIds, propCall, propRet>>

\* the getter reads an observed property: dep.depend()
Read(d) ==
  /\ ~exc
  /\ TopIs("get") /\ Top.ph = "run"
  /\ depend(d)
  /\ cs' = [MarkMutated(cs, subs, subs') EXCEPT
              ![Len(cs)].reads = IF target = Top.w THEN @ \cup {d} ELSE @]
  /\ UNCHANGED <<target, targetStack, async, production, exc, depIds, saved, propCall, propRet>>

\* the getter suspends tracking: pushTarget()
Suspend ==
  /\ ~exc
  /\ TopIs("get") /\ Top.ph = "run"
  /\ Len(targetStack) < MaxStack
  /\ pushTarget(Undefined)
  /\ cs' = [cs EXCEPT ![Len(cs)].depth = @ + 1]
  /\ last' = <<"pushTarget">>
  /\ UNCHANGED <<subs, async, production, exc, depIds, newDepIds, propCall, propRet>>

\* and resumes it: popTarget()
Resume ==
  /\ ~exc
  /\ TopIs("get") /\ Top.ph = "run" /\ Top.depth > 0
  /\ popTarget
  /\ cs' = [cs EXCEPT ![Len(cs)].depth = @ - 1]
  /\ last' = <<"popTarget">>
  /\ UNCHANGED <<subs, async, production, exc, depIds, newDepIds, propCall, propRet>>

\* the getter raises
GetThrow ==
  /\ ~exc
  /\ TopIs("get") /\ Top.ph = "run" /\ Top.depth = 0
  /\ exc' = TRUE
  /\ last' = <<"throw">>
  /\ UNCHANGED <<subs, target, targetStack, async, production, cs, depIds, newDepIds, saved, propCall, propRet>>

\* the getter is left, by return or by an exception: finally { popTarget();
\* this.cleanupDeps() }
GetFinally ==
  /\ TopIs("get") /\ Top.ph = "run" /\ Top.depth = 0
  /\ popTarget
  /\ cleanupDeps(Top.w)
  /\ cs' = [MarkMutated(cs, subs, subs') EXCEPT ![Len(cs)].ph = "done"]
  /\ last' = <<"finally">>
  /\ UNCHANGED <<async, production, exc, propCall, propRet>>

\* get() returns, or passes the exception of its getter on
GetReturn ==
  /\ TopIs("get") /\ Top.ph = "done"
  /\ cs' = Front(cs)
  /\ last' = <<"getReturn">>
  /\ UNCHANGED <<subs, target, targetStack, async, production, exc, depIds, newDepIds, saved, propCall, propRet>>

\* watchers evaluate and are notified; only watchers touch subs and the stack
NextTracked ==
  \/ \E w \in Watchers : Get(w)
  \/ \E d \in Deps : Read(d)
  \/ Suspend
  \/ Resume
  \/ GetThrow
  \/ GetFinally
  \/ GetReturn
  \/ \E d \in Deps : Notify(d)
  \/ NotifyCallUpdate
  \/ UpdateReturn
  \/ UpdateThrow
  \/ NotifyUnwind
  \/ NotifyReturn
  \/ Catch

SpecTracked == Init /\ [][NextTracked]_vars

\* ------------------------------------------------------ calls of validateProp
\* a component is about to validate one prop
InitProps ==
  /\ subs = [d \in Deps |-> <<>>]
  /\ target = Null
  /\ targetStack = <<>>
  /\ async = FALSE
  /\ production = FALSE
  /\ cs = <<>>
  /\ exc = FALSE
  /\ depIds = [w \in Watchers |-> {}]
  /\ newDepIds = [w \in Watchers |-> {}]
  /\ saved = <<>>
  /\ last = <<"init">>
  /\ propCall \in PropCalls
  /\ propRet = NoReturn

\* validateProp runs and returns; cast is its value after the casting block
ValidateProp ==
  /\ ~propRet.done
  /\ propRet' = [done |-> TRUE, cast |-> booleanCasting(propCall), value |-> validateProp(propCall)]
  /\ last' = <<"validateProp">>
  /\ UNCHANGED <<subs, target, targetStack, async, production, cs, exc, depIds, newDepIds, saved, propCall>>

NextProps == ValidateProp

SpecProps == InitProps /\ [][NextProps]_vars

\* ------------------------------------------------------ claims on notify()
\* the frame at position n is a notify() that this step leaves
NotifyExits(n) == n <= Len(cs) /\ cs[n].k = "notify" /\ Len(cs') < n
SameBag(s, t) == \A w \in Watchers : Count(s, w) = Count(t, w)
IdAscending(s) == \A p, q \in 1..Len(s) : p < q => WatcherId[s[p]] <= WatcherId[s[q]]
IsPrefix(s, t) == Len(s) <= Len(t) /\ s = SubSeq(t, 1, Len(s))

\* C1 (as stated): whenever a call of notify() ends, every consumer that was in
\* the subscriber sequence at entry (each at most once) has been updated exactly once.
C1_NotificationCompleteness ==
  [][\A n \in 1..Len(cs) :
       NotifyExits(n) /\ NoDup(cs[n].entry)
         => \A w \in Range(cs[n].entry) : Count(cs[n].fired, w) = 1]_vars

\* What the code does give: a notify() that returns normally has updated exactly
\* the subscribers of its entry, whatever the update() bodies did to the live sequence.
NotifyReturnDeliversSnapshot ==
  TopIs("notify") /\ ~exc /\ ~(Top.i < LoopLen(Top)) => SameBag(Top.fired, Top.entry)

\* C2 (as stated): whenever a call of notify() during which update() bodies
\* added or removed subscribers of the same Dep ends, it has updated exactly
\* the consumers of the snapshot taken at entry, each as often as it occurs there.
C2_ReentrantSafety ==
  [][\A n \in 1..Len(cs) :
       NotifyExits(n) /\ cs[n].mut => SameBag(cs[n].fired, cs[n].entry)]_vars

C4_FailureIsolation ==
  [][\A n \in 1..Len(cs) :
       NotifyExits(n) /\ exc => Len(cs[n].fired) = Len(cs[n].snap)]_vars

\* C10: with config.async true, the updates of one notify() call run in the
\* order of subscription, whatever the ids.
C10_AsyncKeepsInsertionOrder ==
  \A n \in 1..Len(cs) : cs[n].k = "notify" /\ async => IsPrefix(cs[n].fired, cs[n].entry)

\* insertion order A (id 2), B (id 1) is not the order of the ids, and is kept
C10_Witness ==
  /\ async
  /\ TopIs("notify")
  /\ Top.entry = <<"A", "B">>
  /\ Top.fired = <<"A", "B">>

\* ------------------------------------------------- claims on reentrant calls
\* C17 (as stated): whenever a call of notify() ends during which an update()
\* body called depend() or notify() of the same Dep and that call returned,
\* notify() has invoked update() on exactly the consumers of its own snapshot,
\* in the order of the snapshot, each as often as it occurs there.
C17_ReentrantNotify ==
  [][\A n \in 1..Len(cs) :
       NotifyExits(n) /\ cs[n].re => cs[n].fired = cs[n].snap]_vars

\* What the code does give: a notify() that returns normally has walked its own
\* snapshot from end to end, whatever calls the update() bodies made on the Dep.
ReentrantNotifyReturnsSnapshot ==
  TopIs("notify") /\ ~exc /\ ~(Top.i < LoopLen(Top)) /\ Top.re => Top.fired = Top.snap

\* C18: the steps of notify() itself (its entry, the turns of its loop, its
\* return and its abrupt end) change neither a Dep's subscribers nor the context
\* stack nor Dep.target; when a call of notify() ends during which no update()
\* body changed the subscribers of its Dep, these are the sequence they were at
\* entry, in the same order, also when the snapshot was sorted.
C18_NotifyFrame ==
  [][/\ \/ \E d \in Deps : Notify(d)
        \/ NotifyFromUpdate
        \/ NotifyCallUpdate
        \/ UpdateReturn
        \/ NotifyReturn
        \/ NotifyUnwind
        => subs' = subs /\ targetStack' = targetStack /\ target' = target
     /\ \A n \in 1..Len(cs) :
          NotifyExits(n) /\ ~cs[n].mut => subs'[cs[n].d] = cs[n].entry]_vars

\* with A active, d1.notify() sorted its snapshot of [A, B] to [B, A], updated
\* both and returns: d1.subs is still [A, B] and A is still active
C18_Witness ==
  /\ ~async /\ ~production
  /\ Len(cs) = 1 /\ Top.k = "notify" /\ Top.d = "d1"
  /\ Top.entry = <<"A", "B">>
  /\ Top.fired = <<"B", "A">>
  /\ Top.i = 2
  /\ ~Top.mut
  /\ subs["d1"] = <<"A", "B">>
  /\ targetStack = <<"A">>
  /\ target = "A"

\* C19: a call of notify() whose update() bodies only add and remove
\* subscribers makes one turn of its loop for every element its snapshot had at
\* entry and then returns: while turns are left the next update() can be called,
\* every update() returns to the loop, and after the last turn notify() returns,
\* having called update() exactly as many times as the snapshot had elements,
\* however many subscribers the update() bodies added.
C19_NotifyTerminates ==
  /\ \A n \in 1..Len(cs) :
       cs[n].k = "notify"
         => /\ Len(cs[n].snap) = Len(cs[n].entry)
            /\ Len(cs[n].fired) <= Len(cs[n].entry)
            /\ cs[n].i <= Len(cs[n].fired)
  /\ ~exc /\ TopIs("update") => ENABLED UpdateReturn
  /\ ~exc /\ TopIs("notify")
       => /\ Top.i = Len(Top.fired)
          /\ IF Top.i < Len(Top.entry)
             THEN ENABLED NotifyCallUpdate
             ELSE ENABLED NotifyReturn

\* every update() of d1.notify() added a subscriber: d1 holds two subscribers,
\* its snapshot held one, one update() was called and notify() returns
C19_Witness ==
  /\ Len(cs) = 1 /\ Top.k = "notify" /\ Top.d = "d1"
  /\ ~exc
  /\ Len(Top.entry) = 1
  /\ Top.fired = Top.snap
  /\ Top.i = 1
  /\ Top.mut
  /\ Len(subs["d1"]) = 2

\* ------------------------------------------------------ claims on validateProp
\* the declared types hold the constructor; in an array, a before any b
Declares(type, a) == \E n \in 1..Len(type.fns) : type.fns[n] = a
Precedes(type, a, b) ==
  \E p \in 1..Len(type.fns) : type.fns[p] = a /\ \A q \in 1..p : type.fns[q] # b

\* C20: for a prop that declares Boolean, validateProp gives false when the
\* prop is absent from propsData and has no default; otherwise it casts the
\* value to true exactly when the value passed is the empty string or the
\* hyphenated prop name and String is not declared or Boolean is declared
\* before it; in every other case (Boolean not declared, String declared before
\* Boolean, another value) the casting leaves the value passed as it is. A value
\* that is not undefined after the casting is the value returned.
C20_BooleanCasting ==
  propRet.done
    => /\ IF Declares(propCall.type, "Boolean")
          THEN IF propCall.absent /\ ~propCall.hasDefault
               THEN propRet.cast = JsBoolean(FALSE)
               ELSE IF /\ propCall.value \in {JsString(<<>>), JsString(hyphenate(propCall.key))}
                       /\ \/ ~Declares(propCall.type, "String")
                          \/ Precedes(propCall.type, "Boolean", "String")
                    THEN propRet.cast = JsBoolean(TRUE)
                    ELSE propRet.cast = propCall.value
          ELSE propRet.cast = propCall.value
       /\ propRet.cast # JsUndefined => propRet.value = propRet.cast

\* the prop aB: [Boolean, String] was passed "a-b" and is true
C20_Witness ==
  /\ propRet.done
  /\ propCall.key = <<"a", "B">>
  /\ propCall.type = [isArray |-> TRUE, fns |-> <<"Boolean", "String">>]
  /\ propCall.value = JsString(<<"a", "-", "b">>)
  /\ propRet.value = JsBoolean(TRUE)

\* ------------------------------------------- claims on addSub and removeSub
\* C11: addSub(w) on a Dep appends w at the end of that Dep's subscribers,
\* also when w is already among them, and changes nothing else: not the other
\* elements nor their order, not another Dep's subscribers, not the context
\* stack, not Dep.target.
C11_AddSubAppendsOnly ==
  [][\A d \in Deps, w \in Watchers :
       AddSub(d, w)
         => /\ Len(subs'[d]) = Len(subs[d]) + 1
            /\ subs'[d][Len(subs'[d])] = w
            /\ \A n \in 1..Len(subs[d]) : subs'[d][n] = subs[d][n]
            /\ \A e \in Deps \ {d} : subs'[e] = subs[e]
            /\ targetStack' = targetStack
            /\ target' = target]_vars

\* A was added to d1 a second time, under a non-empty context stack
C11_Witness ==
  /\ last = <<"addSub", "d1", "A">>
  /\ subs["d1"] = <<"A", "A">>
  /\ subs["d2"] # <<>>
  /\ targetStack # <<>>

\* t is s without its element at position n
Without(s, n, t) ==
  /\ Len(t) = Len(s) - 1
  /\ \A m \in 1..Len(t) : t[m] = IF m < n THEN s[m] ELSE s[m + 1]

SameActive(a, b) == a = b \/ (~Truthy(a) /\ ~Truthy(b))

\* C6: a depend() with no active consumer invokes no addDep() and leaves the
\* subscribers of every Dep (and the watchers' bookkeeping) as they were.
C6_DependWithoutTargetIsInert ==
  [][\A d \in Deps :
       Depend(d) /\ ~Truthy(target)
         => last' = <<"depend", d>> /\ subs' = subs /\ newDepIds' = newDepIds]_vars

\* depend() ran under the none sentinel on top of an active consumer's subscriptions
C6_Witness ==
  /\ Len(last) = 2 /\ last[1] = "depend"
  /\ targetStack # <<>> /\ ~Truthy(target)
  /\ \E d \in Deps : subs[d] # <<>>

\* C13: with a consumer active, D.depend() makes one call, addDep(D), on the
\* consumer on top of the context stack and on no other; D's subscribers
\* change only by the addSub that this consumer calls back, which it does only
\* for a Dep it has not recorded, and then it is this consumer that is appended.
C13_InvertedRegistration ==
  [][\A d \in Deps :
       Depend(d) /\ Truthy(target)
         => /\ target = Last(targetStack)
            /\ last' = <<"depend", d, target>>
            /\ \A w \in Watchers \ {target} : newDepIds'[w] = newDepIds[w]
            /\ IF d \in newDepIds[target] \cup depIds[target]
               THEN subs' = subs
               ELSE subs' = addSub(subs, d, target)]_vars

\* d1.depend() ran with A active on top of B: A had recorded d1 already and
\* is subscribed once, B is not subscribed
C13_Witness ==
  /\ last = <<"depend", "d1", "A">>
  /\ targetStack = <<"B", "A">>
  /\ subs["d1"] = <<"A">>
  /\ newDepIds["B"] = {}

\* C7: popTarget() of a non-empty stack makes active again the consumer that
\* was active before the matching pushTarget(); back at the empty stack it is none.
C7_PopRestoresPrevious ==
  [][PopTarget /\ targetStack # <<>>
       => /\ SameActive(target', Last(saved))
          /\ (Len(targetStack) = 1 => ~Truthy(target'))]_vars

\* push(X); push(Y); pop() happened: X is active again
C7_Witness ==
  /\ last = <<"popTarget">>
  /\ Len(targetStack) = 1
  /\ Truthy(target)

\* C8: Dep.target is the top of targetStack, and none when the stack is empty.
C8_ActivePointer ==
  IF targetStack = <<>> THEN ~Truthy(target) ELSE target = Last(targetStack)

\* popTarget() on the empty stack, after pushes and pops
C8_Witness ==
  /\ last = <<"popTarget">>
  /\ targetStack = <<>>
  /\ target = Undefined
  /\ \E d \in Deps : subs[d] # <<>>

\* ------------------------------------------------- claims on the evaluation
\* C5: when the evaluation of a watcher has ended (by return or by an
\* exception), the watcher is a subscriber of exactly the Deps whose depend()
\* was called while it was the active consumer.
C5_TrackingCorrectness ==
  \A n \in 1..Len(cs) :
    cs[n].k = "get" /\ cs[n].ph = "done"
      => \A d \in Deps : (cs[n].w \in Range(subs[d])) <=> (d \in cs[n].reads)

\* A read d1 in its last pass and only d2 in this one
C5_Witness ==
  /\ TopIs("get") /\ Top.ph = "done"
  /\ Top.w = "A"
  /\ Top.old = {"d1"}
  /\ Top.reads = {"d2"}
  /\ subs["d1"] = <<"B">>

\* C14: with consumers that call addSub for a Dep only when they are not
\* subscribed to it, no Dep ever holds a consumer twice among its subscribers,
\* also when a consumer is evaluated again and subscribes again while that Dep
\* is notifying.
C14_SubscriberUniqueness ==
  \A d \in Deps : NoDup(subs[d])

\* d1 is notifying A and B; A's update() evaluated A again, which read d1 again
\* and dropped d2
C14_Witness ==
  /\ Len(cs) = 3
  /\ cs[1].k = "notify" /\ cs[1].d = "d1" /\ Len(cs[1].entry) = 2
  /\ cs[2].k = "update" /\ cs[2].w = "A"
  /\ cs[3].k = "get" /\ cs[3].w = "A" /\ cs[3].ph = "done"
  /\ cs[3].old = {"d1", "d2"}
  /\ cs[3].reads = {"d1"}
  /\ Count(subs["d1"], "A") = 1

\* C15: a depend() call made while consumer Y's evaluation runs on top of
\* consumer X's calls addDep on Y and not on X; once Y's evaluation has popped
\* its target, a depend() call of X's evaluation calls addDep on X.
C15_NestedAttribution ==
  [][\A d \in Deps :
       Read(d) /\ Top.depth = 0
         => /\ target = Top.w
            /\ last' = <<"depend", d, Top.w>>
            /\ \A w \in Watchers \ {Top.w} : newDepIds'[w] = newDepIds[w]]_vars

\* A's first evaluation read d1, then B was evaluated inside it and read d1,
\* and after B's evaluation ended A read d2
C15_Witness ==
  /\ Len(cs) = 1
  /\ Top.k = "get" /\ Top.w = "A" /\ Top.ph = "run"
  /\ Top.old = {}
  /\ subs["d1"] = <<"A", "B">>
  /\ depIds["B"] = {"d1"}
  /\ last = <<"depend", "d2", "A">>

\* C16: between pushTarget(none), called while consumer X is evaluated, and
\* the matching popTarget(), depend() calls addDep on nobody and subscribes
\* nobody; that popTarget() makes X the active consumer again.
C16_TrackingSuspension ==
  [][/\ \A d \in Deps :
          Read(d) /\ Top.depth > 0
            => last' = <<"depend", d>> /\ subs' = subs /\ newDepIds' = newDepIds
     /\ Resume /\ Top.depth = 1 => target' = Top.w]_vars

\* A's evaluation suspended tracking and then read d1: A is not subscribed
C16_Witness ==
  /\ TopIs("get") /\ Top.w = "A" /\ Top.depth = 1
  /\ targetStack = <<"A", Undefined>>
  /\ last = <<"depend", "d1">>
  /\ "A" \notin Range(subs["d1"])
  /\ newDepIds["A"] = {"d2"}

\* the evaluations in progress: get() frames whose finally block has not run
OpenGets == {n \in 1..Len(cs) : cs[n].k = "get" /\ cs[n].ph = "run"}

\* C9: the context stack holds exactly the targets pushed by the evaluations in
\* progress, also while an exception propagates; when no evaluation is in
\* progress the stack is empty and no consumer is active.
C9_BalancedStack ==
  /\ Len(targetStack) = Cardinality(OpenGets) + (IF TopIs("get") THEN Top.depth ELSE 0)
  /\ (OpenGets = {} => targetStack = <<>> /\ ~Truthy(target))

\* a top-level evaluation that read a Dep has failed and run its finally block
C9_Witness ==
  /\ Len(cs) = 1 /\ Top.k = "get" /\ Top.ph = "done"
  /\ exc
  /\ Top.reads # {}
  /\ targetStack = <<>>

=============================================================================
